---- MODULE Spec2Model ----
(***************************************************************************)
(* The external-program resource of terraform-provider-external            *)
(* (internal/provider: programResource).  One resource instance is         *)
(* modelled: Create filters the program list, encodes the query, looks the *)
(* executable up, runs it as a child process bound to the caller's         *)
(* context, decodes its stdout and writes the state; Read and Delete have  *)
(* empty bodies and the framework keeps, respectively removes, the state;  *)
(* Update writes the planned record as the state.  A plan that changes     *)
(* program, working_dir or query is carried out as a replacement.          *)
(*                                                                         *)
(* Strings are sequences of one-character strings.  The bytes of a child's *)
(* stderr are run-length encoded (a sequence of [c, n] runs) so that       *)
(* outputs longer than the 64 KiB that Cmd.Output keeps can be written.    *)
(***************************************************************************)
EXTENDS Integers, Sequences, FiniteSets, TLC

VARIABLES
    pc,        \* "unstarted", "running" (Create is blocked in cmd.Output()) or "done"
    plan,      \* req.Plan of the Create call in progress or last made
    ctx,       \* the caller's context of that call: "live" or "done" ("none": no call)
    cmd,       \* the exec.Cmd built at line 199 (NoCmd when none was built)
    child,     \* the child process of cmd
    diags,     \* resp.Diagnostics of that Create call
    state,     \* resp.State / the persisted state of the resource (NoState when null)
    lookups,   \* exec.LookPath calls made by that Create call
    launches,  \* child processes started for the current exchange
    sets,      \* resp.State.Set calls made by that Create call
    reads,     \* Read calls made on the current state
    updates,   \* Update calls made on the current state
    replacing  \* the replacement the framework is carrying out or has last
               \* carried out (NoReplace when the resource was not replaced)

vars ==
    <<pc, plan, ctx, cmd, child, diags, state, lookups, launches, sets, reads, updates,
      replacing>>

-----------------------------------------------------------------------------
(* Bounds of the model *)

\* longest program list of a plan
MaxProgram == 3
\* ticks of wall-clock time a child may be observed running
MaxElapsed == 2
\* Read calls counted on one state
MaxReads == 2
\* largest exit status a child returns
MaxExit == 1
\* Update calls counted on one state
MaxUpdates == 1

-----------------------------------------------------------------------------
(* Characters and strings *)

QUOTE == "\""
BSLASH == "\\"
NEWLINE == "\n"
TAB == "\t"
CR == "\r"
FF == "\f"

HexDigits == <<"0", "1", "2", "3", "4", "5", "6", "7", "8", "9", "a", "b", "c", "d", "e", "f">>

\* the printable ASCII characters, from U+0020 to U+007E (the grave accent,
\* which a string of this language cannot hold, as a token)
Ascii ==
    <<" ", "!", QUOTE, "#", "$", "%", "&", "'", "(", ")", "*", "+", ",", "-", ".", "/",
      "0", "1", "2", "3", "4", "5", "6", "7", "8", "9", ":", ";", "<", "=", ">", "?",
      "@", "A", "B", "C", "D", "E", "F", "G", "H", "I", "J", "K", "L", "M", "N", "O",
      "P", "Q", "R", "S", "T", "U", "V", "W", "X", "Y", "Z", "[", BSLASH, "]", "^", "_",
      "U+0060", "a", "b", "c", "d", "e", "f", "g", "h", "i", "j", "k", "l", "m", "n", "o",
      "p", "q", "r", "s", "t", "u", "v", "w", "x", "y", "z", "{", "|", "}", "~">>

RECURSIVE HexOf(_, _)
\* n in w lower-case hexadecimal digits (more when n needs them), as one string
HexOf(n, w) ==
    IF n < 16 /\ w <= 1 THEN HexDigits[n + 1]
    ELSE HexOf(n \div 16, w - 1) \o HexDigits[(n % 16) + 1]

\* the character with code point n: itself when it is printable ASCII or has a
\* name above, and the token "U+<hex>" otherwise
CodeChar(n) ==
    CASE n = 9  -> TAB
      [] n = 10 -> NEWLINE
      [] n = 12 -> FF
      [] n = 13 -> CR
      [] n \in 32..126 -> Ascii[n - 31]
      [] OTHER -> "U+" \o HexOf(n, 4)

\* the control characters U+0000..U+001F, and the code point of one of them
ControlChars == {CodeChar(n) : n \in 0..31}
ControlCode(c) == CHOOSE n \in 0..31 : CodeChar(n) = c

\* the value of a hexadecimal digit of either case, -1 for another character
HexVal(c) ==
    CASE c = "0" -> 0  [] c = "1" -> 1  [] c = "2" -> 2  [] c = "3" -> 3
      [] c = "4" -> 4  [] c = "5" -> 5  [] c = "6" -> 6  [] c = "7" -> 7
      [] c = "8" -> 8  [] c = "9" -> 9
      [] c \in {"a", "A"} -> 10  [] c \in {"b", "B"} -> 11  [] c \in {"c", "C"} -> 12
      [] c \in {"d", "D"} -> 13  [] c \in {"e", "E"} -> 14  [] c \in {"f", "F"} -> 15
      [] OTHER -> -1

\* the value of four hexadecimal digits, -1 when one of them is no digit
Hex4Val(h) ==
    IF \E i \in 1..4 : HexVal(h[i]) < 0 THEN -1
    ELSE 4096 * HexVal(h[1]) + 256 * HexVal(h[2]) + 16 * HexVal(h[3]) + HexVal(h[4])

RECURSIVE TokenVal(_, _)
\* the value of the hexadecimal digits of the token c, from its third character
\* to its k-th
TokenVal(c, k) == IF k < 3 THEN 0 ELSE 16 * TokenVal(c, k - 1) + HexVal(SubSeq(c, k, k))

\* the code point of a character: the inverse of CodeChar
CodeOf(c) ==
    CASE c = TAB     -> 9
      [] c = NEWLINE -> 10
      [] c = FF      -> 12
      [] c = CR      -> 13
      [] Len(c) = 1  -> 31 + (CHOOSE i \in 1..95 : Ascii[i] = c)
      [] OTHER       -> TokenVal(c, Len(c))

\* n in w lower-case hexadecimal digits, as a string of the model
HexSeq(n, w) == [i \in 1..w |-> HexDigits[((n \div (16 ^ (w - i))) % 16) + 1]]

DEL == CodeChar(127)
LineSeparator == CodeChar(8232)
ParagraphSeparator == CodeChar(8233)

\* the ranges of code points that are not printable: every code point that is
\* no letter, mark, number, punctuation or symbol and is not U+0020 (the
\* control, format, surrogate, private-use and unassigned code points and the
\* separators), by the tables of Unicode 13.0.0, which the library carries in
\* the Go releases up to 1.20
NotPrintRanges ==
    <<<<0, 31>>, <<127, 160>>, <<173, 173>>, <<888, 889>>, <<896, 899>>, <<907, 907>>,
      <<909, 909>>, <<930, 930>>, <<1328, 1328>>, <<1367, 1368>>, <<1419, 1420>>,
      <<1424, 1424>>, <<1480, 1487>>, <<1515, 1518>>, <<1525, 1541>>, <<1564, 1565>>,
      <<1757, 1757>>, <<1806, 1807>>, <<1867, 1868>>, <<1970, 1983>>, <<2043, 2044>>,
      <<2094, 2095>>, <<2111, 2111>>, <<2140, 2141>>, <<2143, 2143>>, <<2155, 2207>>,
      <<2229, 2229>>, <<2248, 2258>>, <<2274, 2274>>, <<2436, 2436>>, <<2445, 2446>>,
      <<2449, 2450>>, <<2473, 2473>>, <<2481, 2481>>, <<2483, 2485>>, <<2490, 2491>>,
      <<2501, 2502>>, <<2505, 2506>>, <<2511, 2518>>, <<2520, 2523>>, <<2526, 2526>>,
      <<2532, 2533>>, <<2559, 2560>>, <<2564, 2564>>, <<2571, 2574>>, <<2577, 2578>>,
      <<2601, 2601>>, <<2609, 2609>>, <<2612, 2612>>, <<2615, 2615>>, <<2618, 2619>>,
      <<2621, 2621>>, <<2627, 2630>>, <<2633, 2634>>, <<2638, 2640>>, <<2642, 2648>>,
      <<2653, 2653>>, <<2655, 2661>>, <<2679, 2688>>, <<2692, 2692>>, <<2702, 2702>>,
      <<2706, 2706>>, <<2729, 2729>>, <<2737, 2737>>, <<2740, 2740>>, <<2746, 2747>>,
      <<2758, 2758>>, <<2762, 2762>>, <<2766, 2767>>, <<2769, 2783>>, <<2788, 2789>>,
      <<2802, 2808>>, <<2816, 2816>>, <<2820, 2820>>, <<2829, 2830>>, <<2833, 2834>>,
      <<2857, 2857>>, <<2865, 2865>>, <<2868, 2868>>, <<2874, 2875>>, <<2885, 2886>>,
      <<2889, 2890>>, <<2894, 2900>>, <<2904, 2907>>, <<2910, 2910>>, <<2916, 2917>>,
      <<2936, 2945>>, <<2948, 2948>>, <<2955, 2957>>, <<2961, 2961>>, <<2966, 2968>>,
      <<2971, 2971>>, <<2973, 2973>>, <<2976, 2978>>, <<2981, 2983>>, <<2987, 2989>>,
      <<3002, 3005>>, <<3011, 3013>>, <<3017, 3017>>, <<3022, 3023>>, <<3025, 3030>>,
      <<3032, 3045>>, <<3067, 3071>>, <<3085, 3085>>, <<3089, 3089>>, <<3113, 3113>>,
      <<3130, 3132>>, <<3141, 3141>>, <<3145, 3145>>, <<3150, 3156>>, <<3159, 3159>>,
      <<3163, 3167>>, <<3172, 3173>>, <<3184, 3190>>, <<3213, 3213>>, <<3217, 3217>>,
      <<3241, 3241>>, <<3252, 3252>>, <<3258, 3259>>, <<3269, 3269>>, <<3273, 3273>>,
      <<3278, 3284>>, <<3287, 3293>>, <<3295, 3295>>, <<3300, 3301>>, <<3312, 3312>>,
      <<3315, 3327>>, <<3341, 3341>>, <<3345, 3345>>, <<3397, 3397>>, <<3401, 3401>>,
      <<3408, 3411>>, <<3428, 3429>>, <<3456, 3456>>, <<3460, 3460>>, <<3479, 3481>>,
      <<3506, 3506>>, <<3516, 3516>>, <<3518, 3519>>, <<3527, 3529>>, <<3531, 3534>>,
      <<3541, 3541>>, <<3543, 3543>>, <<3552, 3557>>, <<3568, 3569>>, <<3573, 3584>>,
      <<3643, 3646>>, <<3676, 3712>>, <<3715, 3715>>, <<3717, 3717>>, <<3723, 3723>>,
      <<3748, 3748>>, <<3750, 3750>>, <<3774, 3775>>, <<3781, 3781>>, <<3783, 3783>>,
      <<3790, 3791>>, <<3802, 3803>>, <<3808, 3839>>, <<3912, 3912>>, <<3949, 3952>>,
      <<3992, 3992>>, <<4029, 4029>>, <<4045, 4045>>, <<4059, 4095>>, <<4294, 4294>>,
      <<4296, 4300>>, <<4302, 4303>>, <<4681, 4681>>, <<4686, 4687>>, <<4695, 4695>>,
      <<4697, 4697>>, <<4702, 4703>>, <<4745, 4745>>, <<4750, 4751>>, <<4785, 4785>>,
      <<4790, 4791>>, <<4799, 4799>>, <<4801, 4801>>, <<4806, 4807>>, <<4823, 4823>>,
      <<4881, 4881>>, <<4886, 4887>>, <<4955, 4956>>, <<4989, 4991>>, <<5018, 5023>>,
      <<5110, 5111>>, <<5118, 5119>>, <<5760, 5760>>, <<5789, 5791>>, <<5881, 5887>>,
      <<5901, 5901>>, <<5909, 5919>>, <<5943, 5951>>, <<5972, 5983>>, <<5997, 5997>>,
      <<6001, 6001>>, <<6004, 6015>>, <<6110, 6111>>, <<6122, 6127>>, <<6138, 6143>>,
      <<6158, 6159>>, <<6170, 6175>>, <<6265, 6271>>, <<6315, 6319>>, <<6390, 6399>>,
      <<6431, 6431>>, <<6444, 6447>>, <<6460, 6463>>, <<6465, 6467>>, <<6510, 6511>>,
      <<6517, 6527>>, <<6572, 6575>>, <<6602, 6607>>, <<6619, 6621>>, <<6684, 6685>>,
      <<6751, 6751>>, <<6781, 6782>>, <<6794, 6799>>, <<6810, 6815>>, <<6830, 6831>>,
      <<6849, 6911>>, <<6988, 6991>>, <<7037, 7039>>, <<7156, 7163>>, <<7224, 7226>>,
      <<7242, 7244>>, <<7305, 7311>>, <<7355, 7356>>, <<7368, 7375>>, <<7419, 7423>>,
      <<7674, 7674>>, <<7958, 7959>>, <<7966, 7967>>, <<8006, 8007>>, <<8014, 8015>>,
      <<8024, 8024>>, <<8026, 8026>>, <<8028, 8028>>, <<8030, 8030>>, <<8062, 8063>>,
      <<8117, 8117>>, <<8133, 8133>>, <<8148, 8149>>, <<8156, 8156>>, <<8176, 8177>>,
      <<8181, 8181>>, <<8191, 8207>>, <<8232, 8239>>, <<8287, 8303>>, <<8306, 8307>>,
      <<8335, 8335>>, <<8349, 8351>>, <<8384, 8399>>, <<8433, 8447>>, <<8588, 8591>>,
      <<9255, 9279>>, <<9291, 9311>>, <<11124, 11125>>, <<11158, 11158>>, <<11311, 11311>>,
      <<11359, 11359>>, <<11508, 11512>>, <<11558, 11558>>, <<11560, 11564>>, <<11566, 11567>>,
      <<11624, 11630>>, <<11633, 11646>>, <<11671, 11679>>, <<11687, 11687>>, <<11695, 11695>>,
      <<11703, 11703>>, <<11711, 11711>>, <<11719, 11719>>, <<11727, 11727>>, <<11735, 11735>>,
      <<11743, 11743>>, <<11859, 11903>>, <<11930, 11930>>, <<12020, 12031>>, <<12246, 12271>>,
      <<12284, 12288>>, <<12352, 12352>>, <<12439, 12440>>, <<12544, 12548>>, <<12592, 12592>>,
      <<12687, 12687>>, <<12772, 12783>>, <<12831, 12831>>, <<40957, 40959>>, <<42125, 42127>>,
      <<42183, 42191>>, <<42540, 42559>>, <<42744, 42751>>, <<42944, 42945>>, <<42955, 42996>>,
      <<43053, 43055>>, <<43066, 43071>>, <<43128, 43135>>, <<43206, 43213>>, <<43226, 43231>>,
      <<43348, 43358>>, <<43389, 43391>>, <<43470, 43470>>, <<43482, 43485>>, <<43519, 43519>>,
      <<43575, 43583>>, <<43598, 43599>>, <<43610, 43611>>, <<43715, 43738>>, <<43767, 43776>>,
      <<43783, 43784>>, <<43791, 43792>>, <<43799, 43807>>, <<43815, 43815>>, <<43823, 43823>>,
      <<43884, 43887>>, <<44014, 44015>>, <<44026, 44031>>, <<55204, 55215>>, <<55239, 55242>>,
      <<55292, 63743>>, <<64110, 64111>>, <<64218, 64255>>, <<64263, 64274>>, <<64280, 64284>>,
      <<64311, 64311>>, <<64317, 64317>>, <<64319, 64319>>, <<64322, 64322>>, <<64325, 64325>>,
      <<64450, 64466>>, <<64832, 64847>>, <<64912, 64913>>, <<64968, 65007>>, <<65022, 65023>>,
      <<65050, 65055>>, <<65107, 65107>>, <<65127, 65127>>, <<65132, 65135>>, <<65141, 65141>>,
      <<65277, 65280>>, <<65471, 65473>>, <<65480, 65481>>, <<65488, 65489>>, <<65496, 65497>>,
      <<65501, 65503>>, <<65511, 65511>>, <<65519, 65531>>, <<65534, 65535>>, <<65548, 65548>>,
      <<65575, 65575>>, <<65595, 65595>>, <<65598, 65598>>, <<65614, 65615>>, <<65630, 65663>>,
      <<65787, 65791>>, <<65795, 65798>>, <<65844, 65846>>, <<65935, 65935>>, <<65949, 65951>>,
      <<65953, 65999>>, <<66046, 66175>>, <<66205, 66207>>, <<66257, 66271>>, <<66300, 66303>>,
      <<66340, 66348>>, <<66379, 66383>>, <<66427, 66431>>, <<66462, 66462>>, <<66500, 66503>>,
      <<66518, 66559>>, <<66718, 66719>>, <<66730, 66735>>, <<66772, 66775>>, <<66812, 66815>>,
      <<66856, 66863>>, <<66916, 66926>>, <<66928, 67071>>, <<67383, 67391>>, <<67414, 67423>>,
      <<67432, 67583>>, <<67590, 67591>>, <<67593, 67593>>, <<67638, 67638>>, <<67641, 67643>>,
      <<67645, 67646>>, <<67670, 67670>>, <<67743, 67750>>, <<67760, 67807>>, <<67827, 67827>>,
      <<67830, 67834>>, <<67868, 67870>>, <<67898, 67902>>, <<67904, 67967>>, <<68024, 68027>>,
      <<68048, 68049>>, <<68100, 68100>>, <<68103, 68107>>, <<68116, 68116>>, <<68120, 68120>>,
      <<68150, 68151>>, <<68155, 68158>>, <<68169, 68175>>, <<68185, 68191>>, <<68256, 68287>>,
      <<68327, 68330>>, <<68343, 68351>>, <<68406, 68408>>, <<68438, 68439>>, <<68467, 68471>>,
      <<68498, 68504>>, <<68509, 68520>>, <<68528, 68607>>, <<68681, 68735>>, <<68787, 68799>>,
      <<68851, 68857>>, <<68904, 68911>>, <<68922, 69215>>, <<69247, 69247>>, <<69290, 69290>>,
      <<69294, 69295>>, <<69298, 69375>>, <<69416, 69423>>, <<69466, 69551>>, <<69580, 69599>>,
      <<69623, 69631>>, <<69710, 69713>>, <<69744, 69758>>, <<69821, 69821>>, <<69826, 69839>>,
      <<69865, 69871>>, <<69882, 69887>>, <<69941, 69941>>, <<69960, 69967>>, <<70007, 70015>>,
      <<70112, 70112>>, <<70133, 70143>>, <<70162, 70162>>, <<70207, 70271>>, <<70279, 70279>>,
      <<70281, 70281>>, <<70286, 70286>>, <<70302, 70302>>, <<70314, 70319>>, <<70379, 70383>>,
      <<70394, 70399>>, <<70404, 70404>>, <<70413, 70414>>, <<70417, 70418>>, <<70441, 70441>>,
      <<70449, 70449>>, <<70452, 70452>>, <<70458, 70458>>, <<70469, 70470>>, <<70473, 70474>>,
      <<70478, 70479>>, <<70481, 70486>>, <<70488, 70492>>, <<70500, 70501>>, <<70509, 70511>>,
      <<70517, 70655>>, <<70748, 70748>>, <<70754, 70783>>, <<70856, 70863>>, <<70874, 71039>>,
      <<71094, 71095>>, <<71134, 71167>>, <<71237, 71247>>, <<71258, 71263>>, <<71277, 71295>>,
      <<71353, 71359>>, <<71370, 71423>>, <<71451, 71452>>, <<71468, 71471>>, <<71488, 71679>>,
      <<71740, 71839>>, <<71923, 71934>>, <<71943, 71944>>, <<71946, 71947>>, <<71956, 71956>>,
      <<71959, 71959>>, <<71990, 71990>>, <<71993, 71994>>, <<72007, 72015>>, <<72026, 72095>>,
      <<72104, 72105>>, <<72152, 72153>>, <<72165, 72191>>, <<72264, 72271>>, <<72355, 72383>>,
      <<72441, 72703>>, <<72713, 72713>>, <<72759, 72759>>, <<72774, 72783>>, <<72813, 72815>>,
      <<72848, 72849>>, <<72872, 72872>>, <<72887, 72959>>, <<72967, 72967>>, <<72970, 72970>>,
      <<73015, 73017>>, <<73019, 73019>>, <<73022, 73022>>, <<73032, 73039>>, <<73050, 73055>>,
      <<73062, 73062>>, <<73065, 73065>>, <<73103, 73103>>, <<73106, 73106>>, <<73113, 73119>>,
      <<73130, 73439>>, <<73465, 73647>>, <<73649, 73663>>, <<73714, 73726>>, <<74650, 74751>>,
      <<74863, 74863>>, <<74869, 74879>>, <<75076, 77823>>, <<78895, 82943>>, <<83527, 92159>>,
      <<92729, 92735>>, <<92767, 92767>>, <<92778, 92781>>, <<92784, 92879>>, <<92910, 92911>>,
      <<92918, 92927>>, <<92998, 93007>>, <<93018, 93018>>, <<93026, 93026>>, <<93048, 93052>>,
      <<93072, 93759>>, <<93851, 93951>>, <<94027, 94030>>, <<94088, 94094>>, <<94112, 94175>>,
      <<94181, 94191>>, <<94194, 94207>>, <<100344, 100351>>, <<101590, 101631>>,
      <<101641, 110591>>, <<110879, 110927>>, <<110931, 110947>>, <<110952, 110959>>,
      <<111356, 113663>>, <<113771, 113775>>, <<113789, 113791>>, <<113801, 113807>>,
      <<113818, 113819>>, <<113824, 118783>>, <<119030, 119039>>, <<119079, 119080>>,
      <<119155, 119162>>, <<119273, 119295>>, <<119366, 119519>>, <<119540, 119551>>,
      <<119639, 119647>>, <<119673, 119807>>, <<119893, 119893>>, <<119965, 119965>>,
      <<119968, 119969>>, <<119971, 119972>>, <<119975, 119976>>, <<119981, 119981>>,
      <<119994, 119994>>, <<119996, 119996>>, <<120004, 120004>>, <<120070, 120070>>,
      <<120075, 120076>>, <<120085, 120085>>, <<120093, 120093>>, <<120122, 120122>>,
      <<120127, 120127>>, <<120133, 120133>>, <<120135, 120137>>, <<120145, 120145>>,
      <<120486, 120487>>, <<120780, 120781>>, <<121484, 121498>>, <<121504, 121504>>,
      <<121520, 122879>>, <<122887, 122887>>, <<122905, 122906>>, <<122914, 122914>>,
      <<122917, 122917>>, <<122923, 123135>>, <<123181, 123183>>, <<123198, 123199>>,
      <<123210, 123213>>, <<123216, 123583>>, <<123642, 123646>>, <<123648, 124927>>,
      <<125125, 125126>>, <<125143, 125183>>, <<125260, 125263>>, <<125274, 125277>>,
      <<125280, 126064>>, <<126133, 126208>>, <<126270, 126463>>, <<126468, 126468>>,
      <<126496, 126496>>, <<126499, 126499>>, <<126501, 126502>>, <<126504, 126504>>,
      <<126515, 126515>>, <<126520, 126520>>, <<126522, 126522>>, <<126524, 126529>>,
      <<126531, 126534>>, <<126536, 126536>>, <<126538, 126538>>, <<126540, 126540>>,
      <<126544, 126544>>, <<126547, 126547>>, <<126549, 126550>>, <<126552, 126552>>,
      <<126554, 126554>>, <<126556, 126556>>, <<126558, 126558>>, <<126560, 126560>>,
      <<126563, 126563>>, <<126565, 126566>>, <<126571, 126571>>, <<126579, 126579>>,
      <<126584, 126584>>, <<126589, 126589>>, <<126591, 126591>>, <<126602, 126602>>,
      <<126620, 126624>>, <<126628, 126628>>, <<126634, 126634>>, <<126652, 126703>>,
      <<126706, 126975>>, <<127020, 127023>>, <<127124, 127135>>, <<127151, 127152>>,
      <<127168, 127168>>, <<127184, 127184>>, <<127222, 127231>>, <<127406, 127461>>,
      <<127491, 127503>>, <<127548, 127551>>, <<127561, 127567>>, <<127570, 127583>>,
      <<127590, 127743>>, <<128728, 128735>>, <<128749, 128751>>, <<128765, 128767>>,
      <<128884, 128895>>, <<128985, 128991>>, <<129004, 129023>>, <<129036, 129039>>,
      <<129096, 129103>>, <<129114, 129119>>, <<129160, 129167>>, <<129198, 129199>>,
      <<129202, 129279>>, <<129401, 129401>>, <<129484, 129484>>, <<129620, 129631>>,
      <<129646, 129647>>, <<129653, 129655>>, <<129659, 129663>>, <<129671, 129679>>,
      <<129705, 129711>>, <<129719, 129727>>, <<129731, 129743>>, <<129751, 129791>>,
      <<129939, 129939>>, <<129995, 130031>>, <<130042, 131071>>, <<173790, 173823>>,
      <<177973, 177983>>, <<178206, 178207>>, <<183970, 183983>>, <<191457, 194559>>,
      <<195102, 196607>>, <<201547, 917759>>, <<918000, 1114111>>>>

\* strconv.IsPrint
IsPrint(n) ==
    IF n \in 32..126 THEN TRUE
    ELSE ~ \E i \in 1..Len(NotPrintRanges) : n \in NotPrintRanges[i][1]..NotPrintRanges[i][2]

RECURSIVE Concat(_)
\* the concatenation of a sequence of strings
Concat(ss) == IF ss = <<>> THEN <<>> ELSE Head(ss) \o Concat(Tail(ss))

\* a types.String: null, or known with a value
Str(s) == [null |-> FALSE, value |-> s]
NullStr == [null |-> TRUE, value |-> <<>>]

\* strconv.Quote's escaping of one character: a printable character stays as
\* it is; of the others, a control character without a short escape and U+007F
\* are written \xNN, the rest \uXXXX, or \UXXXXXXXX above U+FFFF
QuoteChar(c) ==
    CASE c = QUOTE   -> <<BSLASH, QUOTE>>
      [] c = BSLASH  -> <<BSLASH, BSLASH>>
      [] c = NEWLINE -> <<BSLASH, "n">>
      [] c = TAB     -> <<BSLASH, "t">>
      [] c = CR      -> <<BSLASH, "r">>
      [] c = FF      -> <<BSLASH, "f">>
      [] c = CodeChar(7)  -> <<BSLASH, "a">>
      [] c = CodeChar(8)  -> <<BSLASH, "b">>
      [] c = CodeChar(11) -> <<BSLASH, "v">>
      [] c \in ControlChars ->
            <<BSLASH, "x", HexDigits[(ControlCode(c) \div 16) + 1],
              HexDigits[(ControlCode(c) % 16) + 1]>>
      [] c = DEL     -> <<BSLASH, "x", "7", "f">>
      [] IsPrint(CodeOf(c)) -> <<c>>
      [] CodeOf(c) < 65536 -> <<BSLASH, "u">> \o HexSeq(CodeOf(c), 4)
      [] OTHER       -> <<BSLASH, "U">> \o HexSeq(CodeOf(c), 8)

\* fmt.Sprintf("%q", s)
Quote(s) == <<QUOTE>> \o Concat([i \in 1..Len(s) |-> QuoteChar(s[i])]) \o <<QUOTE>>

\* types.String.String(): "<null>" for null, the quoted value otherwise
StringOf(v) == IF v.null THEN <<"<", "n", "u", "l", "l", ">">> ELSE Quote(v.value)

\* types.String.ValueString(): "" for null, the value otherwise
ValueString(v) == IF v.null THEN <<>> ELSE v.value

IsNotQuote(c) == c # QUOTE

\* strings.Replace(s, "\"", "", -1)
StripQuotes(s) == SelectSeq(s, IsNotQuote)

\* the string Create takes from an element: lines 148 and 163
ArgOf(v) == StripQuotes(StringOf(v))

-----------------------------------------------------------------------------
(* Program list and query: Create, lines 145-174 *)

NonEmpty(a) == a # <<>>

\* ProgramArgs without the skip of line 149-151
ProgramArgsKeepEmpty(elems) == [i \in 1..Len(elems) |-> ArgOf(elems[i])]

\* lines 145-153: the elements' strings, the empty ones skipped, in order
ProgramArgs(elems) == SelectSeq([i \in 1..Len(elems) |-> ArgOf(elems[i])], NonEmpty)

\* lines 160-168: the query's entries whose string is not empty
QueryMap(q) == [k \in {j \in DOMAIN q : ArgOf(q[j]) # <<>>} |-> ArgOf(q[k])]

-----------------------------------------------------------------------------
(* JSON.  A document is [kind, fields]: kind is "empty" (no bytes),         *)
(* "malformed", "null", "bool", "number", "string", "array" or "object";    *)
(* fields maps the keys of an object to its values [kind, lit], lit being   *)
(* the characters between the quotes of a string value.                     *)

\* encoding/json's escaping of one character of a string (HTML escaping is on;
\* a control character without a short escape is written \u00NN; newer
\* releases of the library write \b and \f for U+0008 and U+000C, which reads
\* back as the same character; U+2028 and U+2029 are always escaped)
JsonEscapeChar(c) ==
    CASE c = QUOTE   -> <<BSLASH, QUOTE>>
      [] c = BSLASH  -> <<BSLASH, BSLASH>>
      [] c = NEWLINE -> <<BSLASH, "n">>
      [] c = CR      -> <<BSLASH, "r">>
      [] c = TAB     -> <<BSLASH, "t">>
      [] c = "<"     -> <<BSLASH, "u", "0", "0", "3", "c">>
      [] c = ">"     -> <<BSLASH, "u", "0", "0", "3", "e">>
      [] c = "&"     -> <<BSLASH, "u", "0", "0", "2", "6">>
      [] c \in ControlChars ->
            <<BSLASH, "u", "0", "0", HexDigits[(ControlCode(c) \div 16) + 1],
              HexDigits[(ControlCode(c) % 16) + 1]>>
      [] c = LineSeparator      -> <<BSLASH, "u", "2", "0", "2", "8">>
      [] c = ParagraphSeparator -> <<BSLASH, "u", "2", "0", "2", "9">>
      [] OTHER       -> <<c>>

JsonEscape(s) == Concat([i \in 1..Len(s) |-> JsonEscapeChar(s[i])])

\* the character a two-character escape \c stands for, "" when there is none
SimpleEscape(c) ==
    CASE c = QUOTE  -> QUOTE
      [] c = BSLASH -> BSLASH
      [] c = "/"    -> "/"
      [] c = "b"    -> CodeChar(8)
      [] c = "f"    -> FF
      [] c = "n"    -> NEWLINE
      [] c = "r"    -> CR
      [] c = "t"    -> TAB
      [] OTHER      -> ""

\* whether lit has a \uXXXX escape at position i
IsUEscape(lit, i) ==
    /\ Len(lit) >= i + 5
    /\ lit[i] = BSLASH
    /\ lit[i + 1] = "u"
    /\ Hex4Val(SubSeq(lit, i + 2, i + 5)) >= 0

\* the \uXXXX escape at the head of lit: [c, n], the character it stands for and
\* the number of characters of lit it takes.  A high surrogate followed by the
\* escape of a low one is one character; any other surrogate is U+FFFD
UEscape(lit) ==
    LET hi == Hex4Val(SubSeq(lit, 3, 6))
        lo == IF IsUEscape(lit, 7) THEN Hex4Val(SubSeq(lit, 9, 12)) ELSE -1
    IN  IF hi \in 55296..56319 /\ lo \in 56320..57343
        THEN [c |-> CodeChar(65536 + (hi - 55296) * 1024 + (lo - 56320)), n |-> 12]
        ELSE IF hi \in 55296..57343 THEN [c |-> CodeChar(65533), n |-> 6]
        ELSE [c |-> CodeChar(hi), n |-> 6]

RECURSIVE JsonUnescape(_)
\* encoding/json's reading of a string literal: [ok, v]; an unescaped quote, a
\* raw control character, a trailing backslash or an unknown escape is an error
JsonUnescape(lit) ==
    IF lit = <<>> THEN [ok |-> TRUE, v |-> <<>>]
    ELSE IF Head(lit) = QUOTE \/ Head(lit) \in ControlChars THEN [ok |-> FALSE, v |-> <<>>]
    ELSE IF Head(lit) # BSLASH
        THEN LET r == JsonUnescape(Tail(lit))
             IN  [ok |-> r.ok, v |-> IF r.ok THEN <<Head(lit)>> \o r.v ELSE <<>>]
    ELSE IF Len(lit) < 2 THEN [ok |-> FALSE, v |-> <<>>]
    ELSE IF SimpleEscape(lit[2]) # ""
        THEN LET r == JsonUnescape(SubSeq(lit, 3, Len(lit)))
             IN  [ok |-> r.ok, v |-> IF r.ok THEN <<SimpleEscape(lit[2])>> \o r.v ELSE <<>>]
    ELSE IF IsUEscape(lit, 1)
        THEN LET u == UEscape(lit)
                 r == JsonUnescape(SubSeq(lit, u.n + 1, Len(lit)))
             IN  [ok |-> r.ok, v |-> IF r.ok THEN <<u.c>> \o r.v ELSE <<>>]
    ELSE [ok |-> FALSE, v |-> <<>>]

NoFields == <<>>
EmptyDoc == [kind |-> "empty", fields |-> NoFields]
JsonString(lit) == [kind |-> "string", lit |-> lit]
JsonOther(kind) == [kind |-> kind, lit |-> <<>>]
JsonObject(fields) == [kind |-> "object", fields |-> fields]

\* line 169: json.Marshal of a map[string]string (it cannot fail)
Marshal(m) == JsonObject([k \in DOMAIN m |-> JsonString(JsonEscape(m[k]))])

\* the Go value json.Unmarshal stores in an interface{} for a JSON value
GoValue(val) ==
    CASE val.kind = "string" -> [t |-> "string", v |-> JsonUnescape(val.lit).v]
      [] val.kind = "number" -> [t |-> "float64", v |-> <<>>]
      [] val.kind = "bool"   -> [t |-> "bool", v |-> <<>>]
      [] val.kind = "null"   -> [t |-> "nil", v |-> <<>>]
      [] val.kind = "array"  -> [t |-> "slice", v |-> <<>>]
      [] OTHER               -> [t |-> "map", v |-> <<>>]

\* whether the bytes of a document are valid JSON
ValidJson(doc) ==
    /\ doc.kind \notin {"empty", "malformed"}
    /\ \A k \in DOMAIN doc.fields :
          doc.fields[k].kind = "string" => JsonUnescape(doc.fields[k].lit).ok

\* lines 235-236: json.Unmarshal(resultJson, &result), result a
\* map[string]interface{}: [err, nil, m].  null leaves no error and a nil map;
\* an array or a scalar is an error
Unmarshal(doc) ==
    IF ~ValidJson(doc) THEN [err |-> TRUE, nil |-> FALSE, m |-> <<>>]
    ELSE IF doc.kind = "null" THEN [err |-> FALSE, nil |-> TRUE, m |-> <<>>]
    ELSE IF doc.kind = "object"
        THEN [err |-> FALSE, nil |-> FALSE,
              m |-> [k \in DOMAIN doc.fields |-> GoValue(doc.fields[k])]]
    ELSE [err |-> TRUE, nil |-> FALSE, m |-> <<>>]

\* line 254: types.MapValueFrom(ctx, types.StringType, result): [err, value], the
\* value a types.Map: null for a nil map; known, its elements types.String, when
\* every element is a string or nil (a nil element is a null types.String);
\* unknown, with an error diagnostic, when an element is of another type
MapValueFrom(r) ==
    IF r.nil THEN [err |-> FALSE, value |-> [kind |-> "null", elems |-> <<>>]]
    ELSE IF \E k \in DOMAIN r.m : r.m[k].t \notin {"string", "nil"}
        THEN [err |-> TRUE, value |-> [kind |-> "unknown", elems |-> <<>>]]
    ELSE [err |-> FALSE,
          value |-> [kind |-> "known",
                     elems |-> [k \in DOMAIN r.m |->
                                  IF r.m[k].t = "nil" THEN NullStr ELSE Str(r.m[k].v)]]]

-----------------------------------------------------------------------------
(* Bytes, run-length encoded: a sequence of runs [c, n], n > 0, adjacent    *)
(* runs of different characters.                                            *)

RECURSIVE RLen(_)
RLen(b) == IF b = <<>> THEN 0 ELSE b[1].n + RLen(Tail(b))

RCat(a, b) ==
    IF a = <<>> THEN b
    ELSE IF b = <<>> THEN a
    ELSE IF a[Len(a)].c = b[1].c
        THEN SubSeq(a, 1, Len(a) - 1) \o <<[c |-> b[1].c, n |-> a[Len(a)].n + b[1].n]>> \o Tail(b)
    ELSE a \o b

RECURSIVE RTake(_, _)
\* the first k bytes
RTake(b, k) ==
    IF k = 0 \/ b = <<>> THEN <<>>
    ELSE IF b[1].n <= k THEN <<b[1]>> \o RTake(Tail(b), k - b[1].n)
    ELSE <<[c |-> b[1].c, n |-> k]>>

RECURSIVE RDrop(_, _)
\* all but the first k bytes
RDrop(b, k) ==
    IF k = 0 \/ b = <<>> THEN b
    ELSE IF b[1].n <= k THEN RDrop(Tail(b), k - b[1].n)
    ELSE <<[c |-> b[1].c, n |-> b[1].n - k]>> \o Tail(b)

\* the bytes of a string: one run for each maximal block of equal characters
FromChars(s) ==
    LET starts == {i \in 1..Len(s) : i = 1 \/ s[i] # s[i - 1]}
        start(k) == CHOOSE i \in starts : Cardinality({j \in starts : j < i}) = k - 1
        run(i) == {j \in i..Len(s) : \A m \in i..j : s[m] = s[i]}
    IN  [k \in 1..Cardinality(starts) |->
            [c |-> s[start(k)], n |-> Cardinality(run(start(k)))]]

Digits == <<"0", "1", "2", "3", "4", "5", "6", "7", "8", "9">>

RECURSIVE Itoa(_)
\* strconv.FormatInt(n, 10), n >= 0
Itoa(n) == IF n < 10 THEN <<Digits[n + 1]>> ELSE Itoa(n \div 10) \o <<Digits[(n % 10) + 1]>>

-----------------------------------------------------------------------------
(* The host: executables, directories and what a child process does *)

\* the test stub tf-acc-external-data-source, and some other program
StubName == <<"s">>
ProgName == <<"p">>
Executables == {StubName, ProgName}
ExistingDirs == {<<"d">>}

\* line 178: exec.LookPath(file): [err, path]
LookPath(file) == [err |-> file \notin Executables, path |-> <<"/">> \o file]

\* cmd.Dir names a directory the child can be started in ("" is the caller's)
DirExists(d) == d = <<>> \/ d \in ExistingDirs

\* the number of leading and of trailing bytes of stderr that cmd.Output() keeps
SaverN == 32768

OmitPrefix ==
    FromChars(<<NEWLINE, ".", ".", ".", " ", "o", "m", "i", "t", "t", "i", "n", "g", " ">>)
OmitSuffix ==
    FromChars(<<" ", "b", "y", "t", "e", "s", " ", ".", ".", ".", NEWLINE>>)

\* the note written in place of k bytes: "\n... omitting k bytes ...\n"
OmitMessage(k) == RCat(OmitPrefix, RCat(FromChars(Itoa(k)), OmitSuffix))

\* line 205: exitErr.Stderr as cmd.Output() fills it from the child's stderr while
\* the child runs: all of it up to 2 * SaverN bytes, else its first and last
\* SaverN bytes around a note
Saver(b) ==
    IF RLen(b) <= 2 * SaverN THEN b
    ELSE RCat(RTake(b, SaverN),
              RCat(OmitMessage(RLen(b) - 2 * SaverN),
                   RDrop(b, RLen(b) - SaverN)))

AskedToFail ==
    <<"I", " ", "w", "a", "s", " ", "a", "s", "k", "e", "d", " ", "t", "o", " ",
      "f", "a", "i", "l", NEWLINE>>

\* the stub: it fails when the query's "fail" is not empty, and otherwise writes
\* {"query_value": <the query's "value">, "argument": <its first argument>}
StubRun(c) ==
    LET q == c.stdin.fields
        get(k) == IF k \in DOMAIN q THEN JsonUnescape(q[k].lit).v ELSE <<>>
        keys == {"query_value"} \cup (IF c.args # <<>> THEN {"argument"} ELSE {})
    IN  IF get("fail") # <<>>
        THEN [code |-> 1, stdout |-> EmptyDoc, stderr |-> FromChars(AskedToFail)]
        ELSE [code |-> 0,
              stdout |-> Marshal([k \in keys |->
                            IF k = "query_value" THEN get("value") ELSE c.args[1]]),
              stderr |-> <<>>]

Doc(kind) == [kind |-> kind, fields |-> NoFields]
Obj1(v) == JsonObject([k \in {"k"} |-> v])
Obj2(v, w) == JsonObject([k \in {"j", "k"} |-> IF k = "k" THEN v ELSE w])

\* what some program may write to stdout
Stdouts ==
    {Doc("empty"), Doc("malformed"), Doc("null"), Doc("bool"), Doc("number"),
     Doc("string"), Doc("array"), JsonObject(NoFields),
     Obj1(JsonString(<<"a">>)), Obj1(JsonString(<<BSLASH, QUOTE>>)),
     Obj1(JsonString(<<BSLASH, "a">>)), Obj1(JsonString(<<BSLASH, "t">>)),
     Obj1(JsonString(<<BSLASH, "u", "0", "0", "3", "C">>)),
     Obj1(JsonOther("number")), Obj1(JsonOther("bool")), Obj1(JsonOther("null")),
     Obj1(JsonOther("array")), Obj1(JsonOther("object")),
     Obj2(JsonString(<<"a">>), JsonOther("number"))}

ErrLine == FromChars(<<"e", "r", "r", NEWLINE>>)

\* what some program may write to stderr: nothing, a line, 64 KiB, one byte more
Stderrs ==
    {<<>>, ErrLine,
     <<[c |-> "x", n |-> 2 * SaverN]>>,
     <<[c |-> "x", n |-> SaverN]>> \o <<[c |-> "y", n |-> 1]>> \o <<[c |-> "z", n |-> SaverN]>>}

\* how a child of cmd may end on its own: [code, stdout, stderr]
Outcomes(c) ==
    IF c.path = LookPath(StubName).path THEN {StubRun(c)}
    ELSE [code : {0}, stdout : Stdouts, stderr : {<<>>}]
         \cup [code : {0}, stdout : {Obj1(JsonString(<<"a">>))}, stderr : {ErrLine}]
         \cup [code : 1..MaxExit, stdout : {Doc("empty")}, stderr : Stderrs]
         \cup [code : {1}, stdout : {Obj1(JsonString(<<"a">>))}, stderr : {<<>>}]

\* whether, when a child of cmd has ended, another process may still hold the
\* write ends of its output pipes ("open"): a descendant the child has started.
\* The stub starts none.
Holders(c) ==
    IF c.path = LookPath(StubName).path THEN {"closed"} ELSE {"closed", "open"}

-----------------------------------------------------------------------------
(* Plans *)

\* the program lists of the plans: every list of up to MaxProgram elements that
\* are the empty string, the stub's name or a quote, and the lists that run the
\* other program, alone or beside an empty element
ProgramElems == {Str(<<>>), Str(StubName), Str(<<QUOTE>>)}
OtherLists ==
    {<<Str(ProgName)>>, <<Str(<<>>), Str(ProgName)>>, <<Str(ProgName), Str(<<>>)>>}
ProgramLists == UNION {[1..n -> ProgramElems] : n \in 0..MaxProgram} \cup OtherLists
WorkingDirs == {NullStr, Str(<<"d">>), Str(<<"n">>)}
QueryVals == {Str(<<"a">>), Str(<<QUOTE>>)}
FailVals == {Str(<<"a">>)}
Queries ==
    {<<>>} \cup {[k \in {"value"} |-> v] : v \in QueryVals}
    \cup {[k \in {"fail"} |-> v] : v \in FailVals}
Plans == [program : ProgramLists, working_dir : WorkingDirs, query : Queries]

NoPlan == [program |-> <<>>, working_dir |-> NullStr, query |-> <<>>]
NoCmd == [path |-> <<>>, args |-> <<>>, dir |-> <<>>, stdin |-> EmptyDoc]
\* a child: what it wrote to stdout and stderr, what cmd.Output() has saved of
\* its stderr while it ran, whether its output pipes are still held open, and
\* whether the kill of os/exec's watcher was delivered after it had ended
NoChild == [status |-> "none", code |-> 0, stdout |-> EmptyDoc, stderr |-> <<>>,
            saved |-> <<>>, elapsed |-> 0, pipes |-> "closed", ctxerr |-> FALSE]
NoState == [id |-> <<>>, program |-> <<>>, working_dir |-> NullStr, query |-> <<>>,
            result |-> [kind |-> "none", elems |-> <<>>]]

\* no replacement: changed holds the attributes a replacement was planned for,
\* config the configuration it was planned with
NoReplace == [changed |-> {}, config |-> NoPlan]

\* line 251
ExampleId == <<"e", "x", "a", "m", "p", "l", "e", "-", "i", "d">>

-----------------------------------------------------------------------------
(* Diagnostics.  An error diagnostic is [summary, variant, program, message,  *)
(* err]: the summary given to AddError, which of the detail texts was used,   *)
(* the program and the stderr text formatted into it, and the error formatted *)
(* into it ([kind, code]: "exit status <code>", "signal: killed", ...).       *)

ProgramMissing == "External Program Missing"
LookupFailed == "External Program Lookup Failed"
ExecutionFailed == "External Program Execution Failed"
ResultMalformed == "Unexpected External Program Results"
ConversionError == "Value Conversion Error"

Err(kind, code) == [kind |-> kind, code |-> code]

Diag(summary, variant, program, message, err) ==
    [summary |-> summary, variant |-> variant, program |-> program,
     message |-> message, err |-> err]

\* line 156
DiagMissing == Diag(ProgramMissing, "missing", <<>>, <<>>, Err("none", 0))

\* lines 181-194
DiagLookup(file) == Diag(LookupFailed, "lookup", file, <<>>, Err("lookup", 0))

\* the error of cmd.Output(): an *exec.ExitError for a child that was killed or
\* left with a status other than 0; for status 0 the context's error when the
\* watcher's kill was delivered, and nil otherwise
WaitErr(ch) ==
    CASE ch.status = "killed" -> Err("signal", 9)
      [] ch.code # 0          -> Err("exit", ch.code)
      [] ch.ctxerr            -> Err("context", 0)
      [] OTHER                -> Err("nil", 0)

\* DiagExit without the branch of lines 211-218
DiagExitPlain(c, ch) == Diag(ExecutionFailed, "nostderr", c.path, <<>>, WaitErr(ch))

\* lines 210-226: the diagnostic for an *exec.ExitError
DiagExit(c, ch) ==
    IF ch.saved # <<>>
    THEN Diag(ExecutionFailed, "stderr", c.path, ch.saved, WaitErr(ch))
    ELSE Diag(ExecutionFailed, "nostderr", c.path, <<>>, WaitErr(ch))

\* lines 228-232: the diagnostic for any other error of cmd.Output()
DiagStart(c) == Diag(ExecutionFailed, "error", c.path, <<>>, Err("start", 0))

\* lines 228-232, for the error of a context that is done
DiagContext(c) == Diag(ExecutionFailed, "error", c.path, <<>>, Err("context", 0))

\* lines 238-246
DiagResult(c) == Diag(ResultMalformed, "result", c.path, <<>>, Err("json", 0))

\* the error diagnostic types.MapValueFrom returns (lines 254-258)
DiagConversion == Diag(ConversionError, "conversion", <<>>, <<>>, Err("conversion", 0))

\* CmdDone for a command made with exec.Command, which no context ends
CmdDoneNever(c, el) == FALSE

\* CmdDone for a command bound to a context with a timeout of two ticks
CmdDoneTimeout(c, el) == c = "done" \/ el >= 2

\* line 199: exec.CommandContext(ctx, ...): the command is ended when the
\* caller's context is done, and on nothing else (el: the time the child has run)
CmdDone(c, el) == c = "done"

\* ReadResponse for a Read that removes the resource
ReadResponseRemoved(s) == NoState

\* the resp.State of a Read call: the request's state, which the empty body
\* leaves as it is
ReadResponse(s) == s

\* the attributes of a record that the configuration gives
Inputs(s) == <<s.program, s.working_dir, s.query>>

\* RequiresReplace for a schema without the plan modifier on working_dir
RequiresReplaceNoWorkingDir(s, c) ==
    \/ c.program # s.program
    \/ c.query # s.query

\* lines 99-123: the RequiresReplace plan modifiers of program, working_dir and
\* query: a plan for the configuration c on the state s is a replacement when
\* one of the three differs from its value in s
RequiresReplace(s, c) ==
    \/ c.program # s.program
    \/ c.working_dir # s.working_dir
    \/ c.query # s.query

\* the attributes in which the configuration c differs from the state s
Changed(s, c) == {a \in {"program", "working_dir", "query"} : c[a] # s[a]}

\* lines 91-132: the planned record for the configuration c on the state s.  With
\* no difference it is s; with one, id keeps its value (UseStateForUnknown) and
\* result, computed and without a plan modifier, is unknown
PlannedRecord(s, c) ==
    IF Inputs(c) = Inputs(s) THEN s
    ELSE [id |-> s.id, program |-> c.program, working_dir |-> c.working_dir,
          query |-> c.query, result |-> [kind |-> "unknown", elems |-> <<>>]]

-----------------------------------------------------------------------------------------------------------------------------------------------------
(* The operations *)

Init ==
    /\ pc = "unstarted"
    /\ plan = NoPlan
    /\ ctx = "none"
    /\ cmd = NoCmd
    /\ child = NoChild
    /\ diags = <<>>
    /\ state = NoState
    /\ lookups = 0
    /\ launches = 0
    /\ sets = 0
    /\ reads = 0
    /\ updates = 0
    /\ replacing = NoReplace

\* Create returns with these diagnostics and without a call of resp.State.Set
Fail(d) ==
    /\ pc' = "done"
    /\ diags' = <<d>>
    /\ state' = NoState
    /\ sets' = 0

\* Create, lines 136-205, called with the plan p and a context that is c0: up to
\* the start of the child, where cmd.Output() blocks.  The framework calls Create
\* on a resource that has no state, and in a replacement with the plan of the
\* replacement.  cmd.Start starts nothing for a context that is done already.
CreateStart(p, c0) ==
    LET program == ProgramArgs(p.program)
        lp == LookPath(program[1])
        c == [path |-> lp.path, args |-> Tail(program),
              dir |-> ValueString(p.working_dir), stdin |-> Marshal(QueryMap(p.query))]
    IN  /\ pc = "unstarted"
        /\ state = NoState
        /\ replacing = NoReplace \/ replacing.config = p
        /\ plan' = p
        /\ ctx' = c0
        /\ reads' = 0
        /\ updates' = 0
        /\ UNCHANGED replacing
        /\ IF program = <<>>
           THEN /\ Fail(DiagMissing)
                /\ cmd' = NoCmd /\ child' = NoChild /\ lookups' = 0 /\ launches' = 0
           ELSE IF lp.err
           THEN /\ Fail(DiagLookup(program[1]))
                /\ cmd' = NoCmd /\ child' = NoChild /\ lookups' = 1 /\ launches' = 0
           ELSE IF c0 = "done"
           THEN /\ Fail(DiagContext(c))
                /\ cmd' = c /\ child' = NoChild /\ lookups' = 1 /\ launches' = 0
           ELSE IF ~DirExists(c.dir)
           THEN /\ Fail(DiagStart(c))
                /\ cmd' = c /\ child' = NoChild /\ lookups' = 1 /\ launches' = 0
           ELSE /\ pc' = "running"
                /\ cmd' = c
                /\ child' = [NoChild EXCEPT !.status = "running"]
                /\ lookups' = 1
                /\ launches' = 1
                /\ diags' = <<>>
                /\ UNCHANGED <<state, sets>>

\* time passes while the child runs
Tick ==
    /\ pc = "running"
    /\ child.status = "running"
    /\ child.elapsed < MaxElapsed
    /\ child' = [child EXCEPT !.elapsed = @ + 1]
    /\ UNCHANGED <<pc, plan, ctx, cmd, diags, state, lookups, launches, sets, reads,
                   updates, replacing>>

\* the child ends on its own, whether or not the context is done by then
ChildExit ==
    /\ pc = "running"
    /\ child.status = "running"
    /\ \E o \in Outcomes(cmd), h \in Holders(cmd) :
          child' = [child EXCEPT !.status = "exited", !.code = o.code,
                                 !.stdout = o.stdout, !.stderr = o.stderr,
                                 !.saved = Saver(o.stderr), !.pipes = h]
    /\ UNCHANGED <<pc, plan, ctx, cmd, diags, state, lookups, launches, sets, reads,
                   updates, replacing>>

\* the caller cancels the context or its deadline passes, while Create is in
\* cmd.Output()
CtxDone ==
    /\ pc = "running"
    /\ ctx = "live"
    /\ ctx' = "done"
    /\ UNCHANGED <<pc, plan, cmd, child, diags, state, lookups, launches, sets, reads,
                   updates, replacing>>

\* os/exec's watcher of the command's context calls Process.Kill and the child
\* still runs: it is killed, having written e to stderr
Kill ==
    /\ pc = "running"
    /\ child.status = "running"
    /\ CmdDone(ctx, child.elapsed)
    /\ \E e \in {<<>>, ErrLine}, h \in Holders(cmd) :
          child' = [child EXCEPT !.status = "killed", !.stderr = e,
                                 !.saved = Saver(e), !.pipes = h]
    /\ UNCHANGED <<pc, plan, ctx, cmd, diags, state, lookups, launches, sets, reads,
                   updates, replacing>>

\* the watcher's Process.Kill reaches a child that has left with status 0 and
\* that cmd.Wait has not collected yet: the kill changes nothing of the child,
\* and a library that reports it (Go 1.20 and later) makes cmd.Output() return
\* the context's error.  A kill that comes after cmd.Wait, or a library that
\* does not report it, is no step.
KillEnded ==
    /\ pc = "running"
    /\ child.status = "exited"
    /\ child.code = 0
    /\ ~child.ctxerr
    /\ CmdDone(ctx, child.elapsed)
    /\ child' = [child EXCEPT !.ctxerr = TRUE]
    /\ UNCHANGED <<pc, plan, ctx, cmd, diags, state, lookups, launches, sets, reads,
                   updates, replacing>>

\* the last process that held the ended child's output pipes closes them
PipesClose ==
    /\ pc = "running"
    /\ child.status \in {"exited", "killed"}
    /\ child.pipes = "open"
    /\ child' = [child EXCEPT !.pipes = "closed"]
    /\ UNCHANGED <<pc, plan, ctx, cmd, diags, state, lookups, launches, sets, reads,
                   updates, replacing>>

\* Create, lines 205-265: from the return of cmd.Output() on.  cmd.Output()
\* returns when the child has ended and its output pipes are closed (the command
\* has no WaitDelay).
CreateFinish ==
    /\ pc = "running"
    /\ child.status \in {"exited", "killed"}
    /\ child.pipes = "closed"
    /\ IF WaitErr(child).kind \in {"signal", "exit"}
       THEN Fail(DiagExit(cmd, child))
       ELSE IF WaitErr(child).kind = "context"
       THEN Fail(DiagContext(cmd))
       ELSE \E r \in {Unmarshal(child.stdout)} :
               IF r.err
               THEN Fail(DiagResult(cmd))
               ELSE \E mv \in {MapValueFrom(r)} :
                       /\ pc' = "done"
                       /\ diags' = IF mv.err THEN <<DiagConversion>> ELSE <<>>
                       /\ state' = [id |-> ExampleId, program |-> plan.program,
                                    working_dir |-> plan.working_dir,
                                    query |-> plan.query, result |-> mv.value]
                       /\ sets' = 1
    /\ UNCHANGED <<plan, ctx, cmd, child, lookups, launches, reads, updates, replacing>>

\* Read, lines 268-269
Read ==
    /\ pc = "done"
    /\ state # NoState
    /\ reads < MaxReads
    /\ reads' = reads + 1
    /\ state' = ReadResponse(state)
    /\ UNCHANGED <<pc, plan, ctx, cmd, child, diags, lookups, launches, sets, updates,
                   replacing>>

\* Update, lines 272-282, called with the plan for the configuration c: the
\* planned record becomes the state.  The framework calls Update for a plan that
\* is no replacement; one that is goes through Delete and Create.
Update(c) ==
    /\ pc = "done"
    /\ state # NoState
    /\ updates < MaxUpdates
    /\ ~RequiresReplace(state, c)
    /\ updates' = updates + 1
    /\ state' = PlannedRecord(state, c)
    /\ UNCHANGED <<pc, plan, ctx, cmd, child, diags, lookups, launches, sets, reads,
                   replacing>>

\* Delete, lines 286-287: the framework removes the state; the exchange is over
Delete ==
    /\ pc = "done"
    /\ state # NoState
    /\ pc' = "unstarted"
    /\ plan' = NoPlan
    /\ ctx' = "none"
    /\ cmd' = NoCmd
    /\ child' = NoChild
    /\ diags' = <<>>
    /\ state' = NoState
    /\ lookups' = 0
    /\ launches' = 0
    /\ sets' = 0
    /\ reads' = 0
    /\ updates' = 0
    /\ replacing' = NoReplace

\* the first half of a replacement, for the configuration c whose plan is one:
\* the framework calls Delete (lines 286-287) and removes the state, and goes on
\* to call Create with the plan of c
Replace(c) ==
    /\ pc = "done"
    /\ state # NoState
    /\ RequiresReplace(state, c)
    /\ pc' = "unstarted"
    /\ plan' = NoPlan
    /\ ctx' = "none"
    /\ cmd' = NoCmd
    /\ child' = NoChild
    /\ diags' = <<>>
    /\ state' = NoState
    /\ lookups' = 0
    /\ launches' = 0
    /\ sets' = 0
    /\ reads' = 0
    /\ updates' = 0
    /\ replacing' = [changed |-> Changed(state, c), config |-> c]

\* the configurations planned on the state s: the one s was made from, and those
\* that differ from it in program, working_dir or query, or in several of them
Configurations(s) ==
    [program : {s.program, <<Str(ProgName)>>},
     working_dir : {s.working_dir, NullStr, Str(<<"d">>)},
     query : {s.query, <<>>}]

\* an Update call, with the plan for a configuration
AnyUpdate ==
    /\ pc = "done"
    /\ state # NoState
    /\ \E c \in Configurations(state) : Update(c)

\* a replacement, for a configuration
AnyReplace ==
    /\ pc = "done"
    /\ state # NoState
    /\ \E c \in Configurations(state) : Replace(c)

\* a Create call, with any plan and a context that is live or done already
Create ==
    /\ pc = "unstarted"
    /\ \E p \in Plans, c0 \in {"live", "done"} : CreateStart(p, c0)

Next ==
    \/ Create
    \/ Tick
    \/ ChildExit
    \/ CtxDone
    \/ Kill
    \/ KillEnded
    \/ PipesClose
    \/ CreateFinish
    \/ Read
    \/ AnyUpdate
    \/ AnyReplace
    \/ Delete

Spec == Init /\ [][Next]_vars

\* os/exec's watcher runs once the context is done, and once cmd.Output() has
\* returned Create runs on to its end
FairSpec == Spec /\ WF_vars(Kill) /\ WF_vars(CreateFinish)

-----
(* Vocabulary of the claims *)

\* Create has returned / has returned after its child ended on its own
Returned == pc = "done"
Exited == pc = "done" /\ child.status = "exited"

\* the summaries of the error diagnostics of the Create call
Summaries == {diags[i].summary : i \in 1..Len(diags)}

\* the values of the program list that are not the empty string, in order
NonEmptyValues(l) == SelectSeq([i \in 1..Len(l) |-> ValueString(l[i])], NonEmpty)

\* a known, non-empty string
IsText(v) == ~v.null /\ v.value # <<>>

\* the result map {"query_value": v, "argument": a}
Echo(v, a) ==
    [kind |-> "known",
     elems |-> [k \in {"query_value", "argument"} |->
                  IF k = "query_value" THEN Str(v) ELSE Str(a)]]

-----------------------------------------------------------------------------
(* C1 *)

\* C1: for a program list [stub, a] with a not empty and a query whose "value"
\* is a non-empty string v (and that does not ask the stub to fail), a Create
\* whose child has run to its end commits exactly the result
\* {"query_value": v, "argument": a}, with no error.
C1_RoundTrip ==
    (/\ Exited
     /\ Len(plan.program) = 2
     /\ plan.program[1] = Str(StubName)
     /\ IsText(plan.program[2])
     /\ DOMAIN plan.query = {"value"}
     /\ IsText(plan.query["value"]))
    => /\ diags = <<>>
       /\ state.result = Echo(plan.query["value"].value, plan.program[2].value)

-----------------------------------------------------------------------------
(* C2 *)

\* the child left with a status other than 0 and Create has returned
ExitedNonZero == Exited /\ child.code # 0

\* C2 as stated: after an exit status other than 0 Create fails with
\* ExecutionFailed and writes no state, a non-empty stderr is in the error
\* detail verbatim, and with an empty stderr the detail names only the program
\* path and the exit state.
C2_StderrVerbatim ==
    ExitedNonZero =>
        /\ Len(diags) = 1
        /\ diags[1].summary = ExecutionFailed
        /\ state = NoState /\ sets = 0
        /\ child.stderr # <<>> =>
              diags[1].variant = "stderr" /\ diags[1].message = child.stderr
        /\ child.stderr = <<>> =>
              /\ diags[1].variant = "nostderr" /\ diags[1].message = <<>>
              /\ diags[1].program = cmd.path
              /\ diags[1].err = Err("exit", child.code)

\* C2 amended: as C2, but a non-empty stderr is in the detail verbatim only when
\* it has at most 2 * SaverN (65536) bytes; of a longer one the detail holds the
\* first SaverN and the last SaverN bytes, with a note of the number of bytes
\* left out between them.
C2_StderrKept ==
    ExitedNonZero =>
        /\ Len(diags) = 1
        /\ diags[1].summary = ExecutionFailed
        /\ state = NoState /\ sets = 0
        /\ diags[1].program = cmd.path
        /\ diags[1].err = Err("exit", child.code)
        /\ (child.stderr # <<>> /\ RLen(child.stderr) <= 2 * SaverN) =>
              diags[1].variant = "stderr" /\ diags[1].message = child.stderr
        /\ RLen(child.stderr) > 2 * SaverN =>
              /\ diags[1].variant = "stderr"
              /\ RLen(diags[1].message) > 2 * SaverN
              /\ RTake(diags[1].message, SaverN) = RTake(child.stderr, SaverN)
              /\ RDrop(diags[1].message, RLen(diags[1].message) - SaverN)
                    = RDrop(child.stderr, RLen(child.stderr) - SaverN)
              /\ RTake(RDrop(diags[1].message, SaverN),
                       RLen(diags[1].message) - 2 * SaverN)
                    = OmitMessage(RLen(child.stderr) - 2 * SaverN)
              /\ diags[1].message # child.stderr
        /\ child.stderr = <<>> =>
              diags[1].variant = "nostderr" /\ diags[1].message = <<>>

\* a child that wrote more than 65536 bytes to stderr and left with status 1
C2_Witness ==
    /\ ExitedNonZero
    /\ RLen(child.stderr) > 2 * SaverN
    /\ diags[1].variant = "stderr"

-----------------------------------------------------------------------------
(* C3 *)

\* every element of the program list is the empty string
AllEmpty(l) == \A i \in 1..Len(l) : l[i] = Str(<<>>)

\* C3: Create fails with ProgramMissing exactly when the program list holds
\* nothing but empty strings, and then it has looked no executable up, started
\* no child and written no state.
C3_ProgramMissing ==
    pc \in {"running", "done"} =>
        /\ (ProgramMissing \in Summaries) <=> AllEmpty(plan.program)
        /\ ProgramMissing \in Summaries =>
              /\ lookups = 0 /\ launches = 0 /\ sets = 0
              /\ cmd = NoCmd /\ child = NoChild /\ state = NoState

\* a list of two empty strings was refused
C3_Witness ==
    /\ Returned
    /\ plan.program = <<Str(<<>>), Str(<<>>)>>
    /\ diags = <<DiagMissing>>

-----------------------------------------------------------------------------
(* C4 *)

\* C4: the command Create launches is the list's non-empty elements, unchanged
\* and in their order: the first is the executable, the others its arguments.
C4_CommandFromElements ==
    (pc \in {"running", "done"} /\ launches = 1) =>
        /\ cmd.path = LookPath(Head(NonEmptyValues(plan.program))).path
        /\ cmd.args = Tail(NonEmptyValues(plan.program))

-----------------------------------------------------------------------------
(* C5 *)

\* C5: when the child leaves with status 0 and its stdout is not a JSON object,
\* Create fails with ResultMalformed and writes no state.
C5_NonObjectRejected ==
    (Exited /\ child.code = 0 /\ child.stdout.kind # "object") =>
        /\ Summaries = {ResultMalformed}
        /\ state = NoState /\ sets = 0

-----------------------------------------------------------------------------
(* C6 *)

\* a JSON object one of whose values is not a string
HasNonString(doc) ==
    /\ doc.kind = "object"
    /\ ValidJson(doc)
    /\ \E k \in DOMAIN doc.fields : doc.fields[k].kind # "string"

\* C6: when the child leaves with status 0 and its stdout is a JSON object with
\* a value that is not a string, Create fails with ResultMalformed, and no
\* result is written.
C6_NonStringRejected ==
    (Exited /\ child.code = 0 /\ HasNonString(child.stdout)) =>
        /\ Summaries = {ResultMalformed}
        /\ state.result.kind # "known"

-----------------------------------------------------------------------------
(* C7 *)

\* C7: a Create call ends with no error and a state holding the id and the
\* result, or with an error and no state written.
C7_ResultOrError ==
    Returned =>
        \/ /\ diags = <<>>
           /\ sets = 1
           /\ state.id = ExampleId
           /\ state.result.kind \in {"known", "null"}
        \/ /\ diags # <<>>
           /\ sets = 0
           /\ state = NoState

-----------------------------------------------------------------------------------------------------------------------------------------------------
(* C8 *)

\* the caller's context is done and the child of Create still runs
CancelledRunning == pc = "running" /\ ctx = "done" /\ child.status = "running"

\* Create is in cmd.Output() and its child has been killed
Killed == pc = "running" /\ child.status = "killed"

\* Create has returned ExecutionFailed for a killed child, with no state
KilledFailed ==
    /\ Returned
    /\ child.status = "killed"
    /\ Summaries = {ExecutionFailed}
    /\ state = NoState /\ sets = 0

-----
(* C9 *)

\* C9: a child is killed only when the caller's context is done, however long
\* it has run; and when, the context not cancelled, a child leaves with status 0
\* and has written nothing to stdout, Create fails with ResultMalformed.
C9_NoOwnDeadline ==
    /\ Killed => ctx = "done"
    /\ (Exited /\ ctx = "live" /\ child.code = 0 /\ child.stdout.kind = "empty") =>
          /\ Summaries = {ResultMalformed}
          /\ state = NoState

\* a child that ran as long as the model lets it, left with status 0 and no
\* output, and was reported as ResultMalformed
C9_Witness ==
    /\ Exited
    /\ ctx = "live"
    /\ child.elapsed = MaxElapsed
    /\ child.code = 0
    /\ child.stdout.kind = "empty"
    /\ Summaries = {ResultMalformed}

-----------------------------------------------------------------------------
(* C10 *)

\* the state Create wrote for the plan and the child's output
Written ==
    [id |-> ExampleId, program |-> plan.program, working_dir |-> plan.working_dir,
     query |-> plan.query, result |-> MapValueFrom(Unmarshal(child.stdout)).value]

\* C10: a Read call starts no child and leaves the state as it is, so whatever
\* the number of Read calls the state is the one Create wrote and the exchange
\* has started one child.
C10_ReadNoOp ==
    /\ [][reads' = reads + 1 =>
             /\ state' = state
             /\ launches' = launches
             /\ child' = child]_vars
    /\ []((Returned /\ sets = 1) => (state = Written /\ launches = 1))

\* two Read calls after a Create that wrote a result
C10_Witness ==
    /\ reads = MaxReads
    /\ state = Written
    /\ state.result.kind = "known"
    /\ diags = <<>>

-----------------------------------------------------------------------------------------------------------------------------------------------------
(* C11 *)

\* C11: the configured attributes of a state never change in place.  A plan
\* that changes program, working_dir or query takes the resource back to
\* Unstarted, with no state, and the Create that follows is for the changed
\* configuration and starts exactly one child.  An Update call starts no child
\* and leaves id, result and the configured attributes as they are, so after
\* Update calls the state is still the one Create wrote.
C11_ReplaceNotUpdate ==
    /\ [][(state # NoState /\ state' # NoState) => Inputs(state') = Inputs(state)]_vars
    /\ [][(state # NoState /\ replacing' # replacing /\ replacing' # NoReplace) =>
             /\ replacing'.changed = Changed(state, replacing'.config)
             /\ replacing'.changed # {}
             /\ pc' = "unstarted" /\ state' = NoState /\ launches' = 0]_vars
    /\ [][(pc = "unstarted" /\ pc' = "running") => (launches = 0 /\ launches' = 1)]_vars
    /\ []((pc \in {"running", "done"} /\ replacing # NoReplace) =>
             Inputs(plan) = Inputs(replacing.config))
    /\ [][updates' = updates + 1 =>
             /\ launches' = launches
             /\ child' = child
             /\ state'.id = state.id
             /\ state'.result = state.result]_vars
    /\ []((Returned /\ updates > 0) => (state = Written /\ launches = 1))

\* a resource replaced for a changed working_dir alone: the Create of the
\* replacement has run one child in the new directory and written a result, and
\* an Update call has followed it
C11_Witness ==
    /\ replacing.changed = {"working_dir"}
    /\ Returned
    /\ cmd.dir = <<"d">>
    /\ state = Written
    /\ state.working_dir = Str(<<"d">>)
    /\ state.id = ExampleId
    /\ state.result.kind = "known"
    /\ launches = 1
    /\ updates = MaxUpdates

====
